---- MODULE Spec2Model ----
(***************************************************************************)
(* Model of the phonebook service in src/app.py: the contact store, the   *)
(* prefix trie, the relationship graph, the call log and the two JSON     *)
(* snapshot files, driven by the HTTP handlers.                           *)
(*                                                                         *)
(* Python strings are sequences of one-character strings.  Python dicts   *)
(* are insertion-ordered: a dict is a sequence of <<key, value>> pairs     *)
(* with unique keys.                                                       *)
(***************************************************************************)
EXTENDS Integers, Sequences, FiniteSets, TLC

(***************************************************************************)
(* Bounds                                                                  *)
(***************************************************************************)
\* longest name handed to Trie.insert / longest prefix queried
MaxLen == 2
\* number of Trie.insert calls in the trie-only specification
MaxInserts == 3

\* number of requests served in the request-level specification
MaxOps == 5
\* number of requests served in the update specification
MaxUpdOps == 1
\* number of distinct clock readings datetime.now() can give
NumTimestamps == 2

Alphabet == {"a", "b", "A"}

SeqsUpTo(S, n) == UNION {[1..k -> S] : k \in 0..n}

\* names and prefixes: upper case, if any, in the first position
TrieNames ==
  {w \in SeqsUpTo(Alphabet, MaxLen) : \A i \in 2..Len(w) : w[i] \in {"a", "b"}}

Queries == TrieNames

(***************************************************************************)
(* Strings                                                                 *)
(***************************************************************************)
Range(s) == {s[i] : i \in 1..Len(s)}

IsPrefix(p, s) == Len(p) <= Len(s) /\ SubSeq(s, 1, Len(p)) = p

IsProperPrefix(p, s) == IsPrefix(p, s) /\ Len(p) < Len(s)

LowerChar(c) == IF c = "A" THEN "a" ELSE IF c = "B" THEN "b" ELSE c

\* str.lower()
lower(s) == [i \in 1..Len(s) |-> LowerChar(s[i])]

(***************************************************************************)
(* Trie: a function from node paths (the root is <<>>) to TrieNode        *)
(* records; children lists the child characters in dict order.            *)
(***************************************************************************)
TrieNode == [children |-> <<>>, is_end_of_word |-> FALSE]

Trie_init == (<<>> :> TrieNode)

RECURSIVE InsertFrom(_, _, _)
InsertFrom(t, node, rest) ==
  IF rest = <<>>
  THEN [t EXCEPT ![node].is_end_of_word = TRUE]
  ELSE LET char == Head(rest)
           child == Append(node, char)
           t1 == IF char \notin Range(t[node].children)
                 THEN (child :> TrieNode) @@
                      [t EXCEPT ![node].children = Append(@, char)]
                 ELSE t
       IN InsertFrom(t1, child, Tail(rest))

\* variant: the word is indexed without case folding
Trie_insert_nofold(t, word) == InsertFrom(t, <<>>, word)

Trie_insert(t, word) == InsertFrom(t, <<>>, lower(word))

RECURSIVE collect_all_words(_, _, _)
RECURSIVE CollectChildren(_, _, _, _)
\* the words of the children from position i on, in children order
CollectChildren(t, node, prefix, i) ==
  IF i > Len(t[node].children)
  THEN <<>>
  ELSE LET char == t[node].children[i]
       IN collect_all_words(t, Append(node, char), Append(prefix, char))
          \o CollectChildren(t, node, prefix, i + 1)

\* variant: the node's own word is appended after its children's words
RECURSIVE collect_postorder(_, _, _)
RECURSIVE PostorderChildren(_, _, _, _)
PostorderChildren(t, node, prefix, i) ==
  IF i > Len(t[node].children)
  THEN <<>>
  ELSE LET char == t[node].children[i]
       IN collect_postorder(t, Append(node, char), Append(prefix, char))
          \o PostorderChildren(t, node, prefix, i + 1)

collect_postorder(t, node, prefix) ==
  PostorderChildren(t, node, prefix, 1)
  \o (IF t[node].is_end_of_word THEN <<prefix>> ELSE <<>>)

collect_all_words(t, node, prefix) ==
  (IF t[node].is_end_of_word THEN <<prefix>> ELSE <<>>)
  \o CollectChildren(t, node, prefix, 1)

Trie_search(t, prefix) ==
  IF lower(prefix) \notin DOMAIN t
  THEN <<>>
  ELSE collect_all_words(t, lower(prefix), prefix)

\* the nodes Trie.insert(word) constructs on t, in construction order
NewNodes(t, word) ==
  LET w == lower(word)
      have == {k \in 0..Len(w) : SubSeq(w, 1, k) \in DOMAIN t}
      m == CHOOSE k \in have : \A j \in have : j <= k
  IN [i \in 1..(Len(w) - m) |-> SubSeq(w, 1, m + i)]

(***************************************************************************)
(* Python values.  None stands for Python's None where a string is         *)
(* expected; booleans and None in the favorite field are the strings       *)
(* "True", "False", "None".                                                *)
(***************************************************************************)
None == <<"<None>">>

\* truth value of a str-or-None
Truthy(v) == v # None /\ v # <<>>

\* dict.get(f, default) on a request body
Get(data, f, default) == IF f \in DOMAIN data THEN data[f] ELSE default

\* insertion-ordered dict: a sequence of <<key, value>> with unique keys
DictKeys(d) == {d[i][1] : i \in 1..Len(d)}

DictIndex(d, k) == CHOOSE i \in 1..Len(d) : d[i][1] = k

DictGet(d, k) == d[DictIndex(d, k)][2]

\* d[k] = v: an existing key keeps its position, a new key goes last
DictSet(d, k, v) ==
  IF k \in DictKeys(d)
  THEN [d EXCEPT ![DictIndex(d, k)] = <<k, v>>]
  ELSE Append(d, <<k, v>>)

\* del d[k]
DictDel(d, k) == SelectSeq(d, LAMBDA e : e[1] # k)

\* defaultdict reads that do not create the key.  The iteration order of
\* call_log and relationships is used only by the dump endpoints, so both
\* are functions on their key sets.
EmptyMap == [k \in {} |-> {}]

MapGet(m, k, default) == IF k \in DOMAIN m THEN m[k] ELSE default

MapSet(m, k, v) == [x \in DOMAIN m \cup {k} |-> IF x = k THEN v ELSE m[x]]

(***************************************************************************)
(* Validation                                                              *)
(***************************************************************************)
Digits == {"0", "1", "2", "3", "4", "5", "6", "7", "8", "9"}

Letters ==
  {"a", "b", "c", "d", "e", "f", "g", "h", "i", "j", "k", "l", "m",
   "n", "o", "p", "q", "r", "s", "t", "u", "v", "w", "x", "y", "z",
   "A", "B", "C", "D", "E", "F", "G", "H", "I", "J", "K", "L", "M",
   "N", "O", "P", "Q", "R", "S", "T", "U", "V", "W", "X", "Y", "Z"}

\* str.isdigit(): non-empty and every character a digit
isdigit(s) == Len(s) > 0 /\ \A i \in 1..Len(s) : s[i] \in Digits

validate_phone(phone) == isdigit(phone) /\ Len(phone) >= 10

\* re.match of ^[a-zA-Z0-9_.+-]+@[a-zA-Z0-9-]+\.[a-zA-Z0-9-.]+$ ; the $
\* also matches just before one trailing newline
validate_email(email) ==
  LET Local == Letters \cup Digits \cup {"_", ".", "+", "-"}
      Host == Letters \cup Digits \cup {"-"}
      Rest == Letters \cup Digits \cup {"-", "."}
      Ends == {Len(email)} \cup
              (IF Len(email) > 0 /\ email[Len(email)] = "\n"
               THEN {Len(email) - 1} ELSE {})
  IN \E n \in Ends : \E at \in 2..n : \E dot \in (at + 2)..(n - 1) :
       /\ email[at] = "@"
       /\ email[dot] = "."
       /\ \A i \in 1..(at - 1) : email[i] \in Local
       /\ \A i \in (at + 1)..(dot - 1) : email[i] \in Host
       /\ \A i \in (dot + 1)..n : email[i] \in Rest

(***************************************************************************)
(* The JSON snapshot files                                                 *)
(***************************************************************************)
PyToJson(v) == IF v = "True" THEN "true" ELSE IF v = "False" THEN "false"
               ELSE IF v = "None" THEN "null" ELSE v

JsonToPy(v) == IF v = "true" THEN "True" ELSE IF v = "false" THEN "False"
               ELSE IF v = "null" THEN "None" ELSE v

\* json.dump(contacts, file): an object whose members keep the dict order
json_dump_contacts(d) ==
  [i \in 1..Len(d) |-> <<d[i][1], [d[i][2] EXCEPT !.favorite = PyToJson(@)]>>]

\* json.load(file) of contacts.json
json_load_contacts(j) ==
  [i \in 1..Len(j) |-> <<j[i][1], [j[i][2] EXCEPT !.favorite = JsonToPy(@)]>>]

\* json.dump(call_log, file): key -> array of strings
json_dump_call_log(m) == [k \in DOMAIN m |-> m[k]]

\* defaultdict(list, json.load(file))
json_load_call_log(j) == [k \in DOMAIN j |-> j[k]]

NoFile == [exists |-> FALSE, body |-> <<>>]

File(body) == [exists |-> TRUE, body |-> body]

\* load_data(): a missing file leaves both structures empty
load_data(cj, lj) ==
  IF cj.exists /\ lj.exists
  THEN [contacts |-> json_load_contacts(cj.body),
        call_log |-> json_load_call_log(lj.body)]
  ELSE [contacts |-> <<>>, call_log |-> EmptyMap]

\* trie = Trie(); for contact_name in contacts: trie.insert(contact_name)
RECURSIVE BuildTrie(_, _, _)
BuildTrie(d, i, acc) ==
  IF i > Len(d)
  THEN acc
  ELSE BuildTrie(d, i + 1,
                 [trie |-> Trie_insert(acc.trie, d[i][1]),
                  created |-> acc.created \o NewNodes(acc.trie, d[i][1]),
                  inserted |-> acc.inserted \cup {d[i][1]}])

EmptyTrie == [trie |-> Trie_init, created |-> <<>>, inserted |-> {}]

VARIABLES contacts, call_log, relationships, trie, created, inserted,
          contacts_json, call_log_json, req, status, nreq

vars == <<contacts, call_log, relationships, trie, created, inserted,
          contacts_json, call_log_json, req, status, nreq>>

mem == <<contacts, call_log, relationships, trie, created, inserted>>

disk == <<contacts_json, call_log_json>>

Request(op, name, name2, data) ==
  [op |-> op, name |-> name, name2 |-> name2, data |-> data]

\* module start-up on the given files: the three structures are created,
\* load_data() runs, the trie is built from the loaded contacts
Boot(cj, lj) ==
  LET loaded == load_data(cj, lj)
      built == BuildTrie(loaded.contacts, 1, EmptyTrie)
  IN [contacts |-> loaded.contacts, call_log |-> loaded.call_log,
      relationships |-> EmptyMap, trie |-> built.trie,
      created |-> built.created, inserted |-> built.inserted]

Started(cj, lj) ==
  /\ contacts_json = cj
  /\ call_log_json = lj
  /\ contacts = Boot(cj, lj).contacts
  /\ call_log = Boot(cj, lj).call_log
  /\ relationships = Boot(cj, lj).relationships
  /\ trie = Boot(cj, lj).trie
  /\ created = Boot(cj, lj).created
  /\ inserted = Boot(cj, lj).inserted
  /\ req = Request("start", <<>>, <<>>, <<>>)
  /\ status = 0
  /\ nreq = 0

\* first start: no snapshot file exists yet
Init == Started(NoFile, NoFile)

save_data ==
  /\ contacts_json' = File(json_dump_contacts(contacts'))
  /\ call_log_json' = File(json_dump_call_log(call_log'))

\* a response that returns before any assignment
Reply(code, r) ==
  /\ status' = code
  /\ req' = r
  /\ nreq' = nreq + 1

Refuse(code, r) ==
  /\ Reply(code, r)
  /\ UNCHANGED <<mem, disk>>

TrieInsert(word) ==
  /\ Cardinality(inserted) < MaxInserts
  /\ trie' = Trie_insert(trie, word)
  /\ created' = created \o NewNodes(trie, word)
  /\ inserted' = inserted \cup {word}
  /\ UNCHANGED <<contacts, call_log, relationships, disk, req, status, nreq>>

add_contact(data) ==
  LET name == Get(data, "name", None)
      phone == Get(data, "phone", None)
      email == Get(data, "email", <<>>)
      address == Get(data, "address", <<>>)
      group == Get(data, "group", <<>>)
      favorite == Get(data, "favorite", "False")
      r == Request("add_contact", <<>>, <<>>, data)
  IN IF ~Truthy(name) \/ ~Truthy(phone) THEN Refuse(400, r)
     ELSE IF ~validate_phone(phone) THEN Refuse(400, r)
     ELSE IF Truthy(email) /\ ~validate_email(email) THEN Refuse(400, r)
     ELSE /\ contacts' = DictSet(contacts, lower(name),
                                 [phone |-> phone, email |-> email,
                                  address |-> address, group |-> group,
                                  favorite |-> favorite])
          /\ trie' = Trie_insert(trie, name)
          /\ created' = created \o NewNodes(trie, name)
          /\ inserted' = inserted \cup {name}
          /\ UNCHANGED <<call_log, relationships>>
          /\ save_data
          /\ Reply(201, r)

\* variant: the phone is assigned before the email is validated
update_contact_eager(name, data) ==
  LET key == lower(name)
      phone == Get(data, "phone", None)
      email == Get(data, "email", None)
      address == Get(data, "address", None)
      group == Get(data, "group", None)
      favorite == Get(data, "favorite", "None")
      r == Request("update_contact", name, <<>>, data)
  IN IF key \notin DictKeys(contacts) THEN Refuse(404, r)
     ELSE IF Truthy(phone) /\ ~validate_phone(phone) THEN Refuse(400, r)
     ELSE LET c0 == DictGet(contacts, key)
              c1 == IF Truthy(phone) THEN [c0 EXCEPT !.phone = phone] ELSE c0
              c2 == IF Truthy(email) THEN [c1 EXCEPT !.email = email] ELSE c1
              c3 == IF Truthy(address) THEN [c2 EXCEPT !.address = address] ELSE c2
              c4 == IF Truthy(group) THEN [c3 EXCEPT !.group = group] ELSE c3
              c5 == IF favorite # "None" THEN [c4 EXCEPT !.favorite = favorite] ELSE c4
          IN IF Truthy(email) /\ ~validate_email(email)
             THEN /\ contacts' = DictSet(contacts, key, c1)
                  /\ UNCHANGED <<call_log, relationships, trie, created,
                                 inserted, disk>>
                  /\ Reply(400, r)
             ELSE /\ contacts' = DictSet(contacts, key, c5)
                  /\ UNCHANGED <<call_log, relationships, trie, created,
                                 inserted>>
                  /\ save_data
                  /\ Reply(200, r)

\* variant: address and group are assigned whenever they are not None
update_contact_blank(name, data) ==
  LET key == lower(name)
      phone == Get(data, "phone", None)
      email == Get(data, "email", None)
      address == Get(data, "address", None)
      group == Get(data, "group", None)
      favorite == Get(data, "favorite", "None")
      r == Request("update_contact", name, <<>>, data)
  IN IF key \notin DictKeys(contacts) THEN Refuse(404, r)
     ELSE IF Truthy(phone) /\ ~validate_phone(phone) THEN Refuse(400, r)
     ELSE IF Truthy(email) /\ ~validate_email(email) THEN Refuse(400, r)
     ELSE LET c0 == DictGet(contacts, key)
              c1 == IF Truthy(phone) THEN [c0 EXCEPT !.phone = phone] ELSE c0
              c2 == IF Truthy(email) THEN [c1 EXCEPT !.email = email] ELSE c1
              c3 == IF address # None THEN [c2 EXCEPT !.address = address] ELSE c2
              c4 == IF group # None THEN [c3 EXCEPT !.group = group] ELSE c3
              c5 == IF favorite # "None" THEN [c4 EXCEPT !.favorite = favorite] ELSE c4
          IN /\ contacts' = DictSet(contacts, key, c5)
             /\ UNCHANGED <<call_log, relationships, trie, created, inserted>>
             /\ save_data
             /\ Reply(200, r)

update_contact(name, data) ==
  LET key == lower(name)
      phone == Get(data, "phone", None)
      email == Get(data, "email", None)
      address == Get(data, "address", None)
      group == Get(data, "group", None)
      favorite == Get(data, "favorite", "None")
      r == Request("update_contact", name, <<>>, data)
  IN IF key \notin DictKeys(contacts) THEN Refuse(404, r)
     ELSE IF Truthy(phone) /\ ~validate_phone(phone) THEN Refuse(400, r)
     ELSE IF Truthy(email) /\ ~validate_email(email) THEN Refuse(400, r)
     ELSE LET c0 == DictGet(contacts, key)
              c1 == IF Truthy(phone) THEN [c0 EXCEPT !.phone = phone] ELSE c0
              c2 == IF Truthy(email) THEN [c1 EXCEPT !.email = email] ELSE c1
              c3 == IF Truthy(address) THEN [c2 EXCEPT !.address = address] ELSE c2
              c4 == IF Truthy(group) THEN [c3 EXCEPT !.group = group] ELSE c3
              c5 == IF favorite # "None" THEN [c4 EXCEPT !.favorite = favorite] ELSE c4
          IN /\ contacts' = DictSet(contacts, key, c5)
             /\ UNCHANGED <<call_log, relationships, trie, created, inserted>>
             /\ save_data
             /\ Reply(200, r)

\* variant: the snapshot is not rewritten after the deletion
delete_contact_nosave(name) ==
  LET key == lower(name)
      r == Request("delete_contact", name, <<>>, <<>>)
  IN IF key \in DictKeys(contacts)
     THEN /\ contacts' = DictDel(contacts, key)
          /\ UNCHANGED <<call_log, relationships, trie, created, inserted, disk>>
          /\ Reply(200, r)
     ELSE Refuse(404, r)

\* variant: the deletion also drops the contact's call history
delete_contact_droplog(name) ==
  LET key == lower(name)
      r == Request("delete_contact", name, <<>>, <<>>)
  IN IF key \in DictKeys(contacts)
     THEN /\ contacts' = DictDel(contacts, key)
          /\ call_log' = [k \in DOMAIN call_log \ {key} |-> call_log[k]]
          /\ UNCHANGED <<relationships, trie, created, inserted>>
          /\ save_data
          /\ Reply(200, r)
     ELSE Refuse(404, r)

delete_contact(name) ==
  LET key == lower(name)
      r == Request("delete_contact", name, <<>>, <<>>)
  IN IF key \in DictKeys(contacts)
     THEN /\ contacts' = DictDel(contacts, key)
          /\ UNCHANGED <<call_log, relationships, trie, created, inserted>>
          /\ save_data
          /\ Reply(200, r)
     ELSE Refuse(404, r)

\* a response member for a name the store no longer holds
Missing == [phone |-> None, email |-> None, address |-> None,
            group |-> None, favorite |-> "None"]

\* variant: trie results are looked up with contacts.get, not filtered
search_contact_unfiltered(Q) ==
  LET query == lower(Q)
      results == Trie_search(trie, query)
  IN [i \in 1..Len(results) |->
        <<results[i],
          IF lower(results[i]) \in DictKeys(contacts)
          THEN DictGet(contacts, lower(results[i])) ELSE Missing>>]

\* GET /contacts/search?query=Q: the response object, in member order
search_contact(Q) ==
  LET query == lower(Q)
      results == Trie_search(trie, query)
      kept == SelectSeq(results, LAMBDA n : lower(n) \in DictKeys(contacts))
  IN [i \in 1..Len(kept) |-> <<kept[i], DictGet(contacts, lower(kept[i]))>>]

\* variant: only the first endpoint records the edge
add_relationship_oneway(name1, name2) ==
  LET key1 == lower(name1)
      key2 == lower(name2)
      r == Request("add_relationship", name1, name2, <<>>)
      rel1 == MapSet(relationships, key1,
                     MapGet(relationships, key1, {}) \cup {key2})
  IN IF key1 \notin DictKeys(contacts) \/ key2 \notin DictKeys(contacts)
     THEN Refuse(404, r)
     ELSE /\ relationships' = rel1
          /\ UNCHANGED <<contacts, call_log, trie, created, inserted>>
          /\ save_data
          /\ Reply(200, r)

\* variant: only the first endpoint is looked up in the store
add_relationship_halfchecked(name1, name2) ==
  LET key1 == lower(name1)
      key2 == lower(name2)
      r == Request("add_relationship", name1, name2, <<>>)
      rel1 == MapSet(relationships, key1,
                     MapGet(relationships, key1, {}) \cup {key2})
      rel2 == MapSet(rel1, key2, MapGet(rel1, key2, {}) \cup {key1})
  IN IF key1 \notin DictKeys(contacts)
     THEN Refuse(404, r)
     ELSE /\ relationships' = rel2
          /\ UNCHANGED <<contacts, call_log, trie, created, inserted>>
          /\ save_data
          /\ Reply(200, r)

add_relationship(name1, name2) ==
  LET key1 == lower(name1)
      key2 == lower(name2)
      r == Request("add_relationship", name1, name2, <<>>)
      rel1 == MapSet(relationships, key1,
                     MapGet(relationships, key1, {}) \cup {key2})
      rel2 == MapSet(rel1, key2, MapGet(rel1, key2, {}) \cup {key1})
  IN IF key1 \notin DictKeys(contacts) \/ key2 \notin DictKeys(contacts)
     THEN Refuse(404, r)
     ELSE /\ relationships' = rel2
          /\ UNCHANGED <<contacts, call_log, trie, created, inserted>>
          /\ save_data
          /\ Reply(200, r)

\* now is the reading of datetime.now()
log_call(name, now) ==
  LET key == lower(name)
      r == Request("log_call", name, <<>>, <<>>)
  IN IF key \notin DictKeys(contacts) THEN Refuse(404, r)
     ELSE /\ call_log' = MapSet(call_log, key,
                                Append(MapGet(call_log, key, <<>>), now))
          /\ UNCHANGED <<contacts, relationships, trie, created, inserted>>
          /\ save_data
          /\ Reply(200, r)

\* the process is stopped between two requests and started again
restart ==
  LET boot == Boot(contacts_json, call_log_json)
  IN /\ contacts' = boot.contacts
     /\ call_log' = boot.call_log
     /\ relationships' = boot.relationships
     /\ trie' = boot.trie
     /\ created' = boot.created
     /\ inserted' = boot.inserted
     /\ req' = Request("restart", <<>>, <<>>, <<>>)
     /\ status' = 0
     /\ UNCHANGED <<disk, nreq>>

(***************************************************************************)
(* Request inputs                                                          *)
(***************************************************************************)
Phone1 == <<"1", "2", "3", "4", "5", "6", "7", "8", "9", "0">>
Phone2 == <<"0", "9", "8", "7", "6", "5", "4", "3", "2", "1">>
ShortPhone == <<"1", "2", "3", "4", "5", "6", "7", "8", "9">>
NonDigitPhone == <<"1", "2", "3", "4", "5", "x", "7", "8", "9", "0">>
Email1 == <<"a", "@", "b", ".", "c">>
Email2 == <<"b", "@", "b", ".", "c">>
BadEmail == <<"a", "@", "b">>

ReqNames == {<<"A">>, <<"a", "b">>, <<"b">>}

Timestamps == 1..NumTimestamps

AddData ==
  {[name |-> n, phone |-> Phone1] : n \in ReqNames} \cup {[name |-> <<"b">>]}

UpdData == {[favorite |-> "True"], [phone |-> ShortPhone]}

Next ==
  \/ nreq < MaxOps /\ \E data \in AddData : add_contact(data)
  \/ nreq < MaxOps /\ \E name \in ReqNames, data \in UpdData :
                        update_contact(name, data)
  \/ nreq < MaxOps /\ \E name \in ReqNames : delete_contact(name)
  \/ nreq < MaxOps /\ \E name1 \in ReqNames, name2 \in ReqNames :
                        add_relationship(name1, name2)
  \/ nreq < MaxOps /\ \E name \in ReqNames, now \in Timestamps :
                        log_call(name, now)
  \/ restart

Spec == Init /\ [][Next]_vars

(***************************************************************************)
(* The update specification: the service starts on snapshots left by an   *)
(* earlier run and serves update requests with every combination of       *)
(* absent, empty, well-formed and malformed fields.                        *)
(***************************************************************************)
Addr1 == <<"x">>
Addr2 == <<"y">>
Group1 == <<"g">>
Group2 == <<"h">>

StoredContacts ==
  << <<<<"a">>, [phone |-> Phone1, email |-> Email1, address |-> Addr1,
                 group |-> Group1, favorite |-> "True"]>>,
     <<<<"b">>, [phone |-> Phone1, email |-> <<>>, address |-> <<>>,
                 group |-> <<>>, favorite |-> "False"]>> >>

StoredCallLog == (<<"a">> :> <<1>>)

InitLoaded ==
  Started(File(json_dump_contacts(StoredContacts)),
          File(json_dump_call_log(StoredCallLog)))

\* a field left out of the request body
Absent == <<"<absent>">>
AbsentFlag == "<absent>"

Body(phone, email, address, group, favorite) ==
  LET given == [phone |-> phone, email |-> email, address |-> address,
                group |-> group]
      present == {f \in DOMAIN given : given[f] # Absent}
                 \cup (IF favorite # AbsentFlag THEN {"favorite"} ELSE {})
  IN [f \in present |-> IF f = "favorite" THEN favorite ELSE given[f]]

UpdBodies ==
  {Body(p, e, a, g, f) :
     p \in {Absent, <<>>, Phone2, ShortPhone, NonDigitPhone},
     e \in {Absent, <<>>, Email2, BadEmail},
     a \in {Absent, <<>>, Addr2},
     g \in {Absent, <<>>, Group2},
     f \in {AbsentFlag, "None", "False"}}

UpdRequests ==
  ({<<"A">>} \X UpdBodies)
  \cup ({<<"b">>} \X {Body(Phone2, BadEmail, Addr2, Absent, "True"),
                      Body(<<>>, Email2, <<>>, Group2, AbsentFlag)})
  \cup {<<<<"a", "b">>, Body(Phone2, Absent, Absent, Absent, AbsentFlag)>>}

NextUpdate ==
  /\ nreq < MaxUpdOps
  /\ \E u \in UpdRequests : update_contact(u[1], u[2])

SpecUpdate == InitLoaded /\ [][NextUpdate]_vars

NextTrie == \E word \in TrieNames : TrieInsert(word)

SpecTrie == Init /\ [][NextTrie]_vars

(***************************************************************************)
(* Properties of the trie                                                  *)
(***************************************************************************)
Indexed == {lower(n) : n \in inserted}

\* position of node p in the construction order of the trie's nodes
Born(p) == CHOOSE i \in 1..Len(created) : created[i] = p

\* first position at which two words, neither a prefix of the other, differ
Fork(u, v) == CHOOSE d \in 1..Len(u) : u[d] # v[d] /\ SubSeq(u, 1, d - 1) = SubSeq(v, 1, d - 1)

Diverge(u, v) == ~IsPrefix(u, v) /\ ~IsPrefix(v, u)

\* C2: for every inserted name N and every case-insensitive prefix P of N
\* (upper-case characters allowed in P), Trie.search(P) includes lower(N).
C2_SearchIncludesLowercased ==
  \A N \in inserted : \A P \in Queries :
    IsPrefix(lower(P), lower(N)) => lower(N) \in Range(Trie_search(trie, P))

\* C3: Trie.search("") lists exactly the lowercased inserted names, each
\* once; the terminal nodes are exactly the inserted names; inserting a
\* name that is already indexed changes no search result.
C3_Exact ==
  LET all == Trie_search(trie, <<>>)
  IN /\ Range(all) = Indexed
     /\ \A i, j \in 1..Len(all) : all[i] = all[j] => i = j
     /\ {p \in DOMAIN trie : trie[p].is_end_of_word} = Indexed

C3_Idempotent ==
  Indexed' = Indexed =>
    \A P \in Queries : Trie_search(trie', P) = Trie_search(trie, P)

\* C3: both parts, in every state and over every step
C3_EmptySearchExact == []C3_Exact /\ [][C3_Idempotent]_vars

\* a name given with an upper-case character is indexed and inserted again
C3_Witness ==
  /\ \E n \in inserted : lower(n) # n
  /\ Cardinality(Indexed) >= 2
  /\ Cardinality(Indexed) < Cardinality(inserted)

\* C10: in the sequence Trie.search(P) returns, a name that is a proper
\* prefix of another comes before it, and of two names that first differ
\* at some position the one under the child created earlier comes first.
C10_PreorderCreationOrder ==
  \A P \in Queries :
    LET r == Trie_search(trie, P)
    IN \A i, j \in 1..Len(r) :
         /\ IsProperPrefix(r[i], r[j]) => i < j
         /\ i # j /\ Diverge(r[i], r[j]) =>
              LET d == Fork(r[i], r[j])
              IN i < j <=> Born(lower(SubSeq(r[i], 1, d)))
                           < Born(lower(SubSeq(r[j], 1, d)))

\* a search result holding a name, an extension of it, and a name under a
\* child created before a child that sorts lower
C10_Witness ==
  \E P \in Queries :
    LET r == Trie_search(trie, P)
    IN /\ \E i, j \in 1..Len(r) : IsProperPrefix(r[i], r[j])
       /\ \E i, j \in 1..Len(r) :
            /\ i < j
            /\ Diverge(r[i], r[j])
            /\ r[i][Fork(r[i], r[j])] = "b"
            /\ r[j][Fork(r[i], r[j])] = "a"

(***************************************************************************)
(* Properties of the service                                               *)
(***************************************************************************)
Keys == DictKeys(contacts)

Neighbors(k) == MapGet(relationships, k, {})

Calls(k) == MapGet(call_log, k, <<>>)

KnownKeys ==
  {lower(n) : n \in ReqNames} \cup DOMAIN relationships
  \cup UNION {relationships[k] : k \in DOMAIN relationships}
  \cup DOMAIN call_log \cup Keys

\* two dicts with the same keys and the same value under each key
SameDict(d, e) ==
  /\ DictKeys(d) = DictKeys(e)
  /\ \A k \in DictKeys(d) : DictGet(d, k) = DictGet(e, k)

\* C1: for every query Q the key set of the prefix-search response is
\* exactly the set of store keys that start with lower(Q); a deleted
\* contact is not returned although the trie still holds its name.
C1_SearchMatchesStore ==
  \A Q \in Queries :
    {m[1] : m \in Range(search_contact(Q))}
      = {k \in Keys : IsPrefix(lower(Q), k)}

\* a contact was deleted, the trie still lists it, and a query that is a
\* prefix of its name still returns another contact
C1_Witness ==
  /\ req.op = "delete_contact"
  /\ status = 200
  /\ lower(req.name) \in Range(Trie_search(trie, <<>>))
  /\ lower(req.name) \notin Keys
  /\ \E Q \in Queries :
       /\ Q # <<>>
       /\ IsPrefix(lower(Q), lower(req.name))
       /\ search_contact(Q) # <<>>

\* C4: the relationship graph is symmetric in every reachable state.
C4_GraphSymmetric ==
  \A a, b \in KnownKeys : b \in Neighbors(a) <=> a \in Neighbors(b)

\* an edge between two different keys, one of them deleted since
C4_Witness ==
  \E a, b \in KnownKeys :
    a # b /\ b \in Neighbors(a) /\ a \notin Keys /\ b \in Keys

\* C5: add_relationship with an endpoint missing from the store answers
\* 404 and leaves graph, store, call log and trie as they were; with both
\* present it adds each key to the other's neighbor set and nothing else,
\* and changes nothing when the edge is already there.
C5_Step ==
  req'.op = "add_relationship" /\ nreq' = nreq + 1 =>
    LET key1 == lower(req'.name)
        key2 == lower(req'.name2)
    IN IF key1 \notin Keys \/ key2 \notin Keys
       THEN /\ status' = 404
            /\ UNCHANGED <<relationships, contacts, call_log, trie>>
       ELSE /\ status' = 200
            /\ \A k \in KnownKeys :
                 MapGet(relationships', k, {}) =
                   Neighbors(k) \cup (IF k = key1 THEN {key2} ELSE {})
                                \cup (IF k = key2 THEN {key1} ELSE {})
            /\ DOMAIN relationships' = DOMAIN relationships \cup {key1, key2}
            /\ (key2 \in Neighbors(key1) /\ key1 \in Neighbors(key2)
                  => relationships' = relationships)
            /\ UNCHANGED <<contacts, call_log, trie>>

\* C5: every step satisfies the add_relationship contract
C5_AddRelationship == [][C5_Step]_vars

\* a relationship request refused for a missing endpoint while the other
\* endpoint exists and the graph already has an edge
C5_Witness ==
  /\ req.op = "add_relationship"
  /\ status = 404
  /\ lower(req.name) \in Keys
  /\ lower(req.name2) \notin Keys
  /\ relationships # EmptyMap

\* C8: the persisted contact snapshot equals the in-memory store and the
\* persisted call-log snapshot equals the in-memory call log after every
\* request, and a restart yields the same store and call log.
C8_Persisted ==
  LET loaded == load_data(contacts_json, call_log_json)
  IN /\ SameDict(loaded.contacts, contacts)
     /\ loaded.call_log = call_log
     /\ (status \in {200, 201} => contacts_json.exists /\ call_log_json.exists)

C8_RestartKeeps ==
  req'.op = "restart" => SameDict(contacts', contacts) /\ call_log' = call_log

\* C8: snapshots match in every state and a restart keeps store and log
C8_SnapshotsMatch == []C8_Persisted /\ [][C8_RestartKeeps]_vars

\* a restart that reloaded a non-empty store and a non-empty call log,
\* one contact carrying an updated field
C8_Witness ==
  /\ req.op = "restart"
  /\ call_log # EmptyMap
  /\ \E k \in Keys : DictGet(contacts, k).favorite = "True"

\* C9: log_call on a key absent from the store answers 404 and changes
\* nothing, otherwise it appends exactly one timestamp at the end of that
\* key's sequence; over any step every key's sequence is a prefix of its
\* later sequence.
C9_Step ==
  /\ \A k \in KnownKeys : IsPrefix(Calls(k), MapGet(call_log', k, <<>>))
  /\ DOMAIN call_log \subseteq DOMAIN call_log'
  /\ req'.op = "log_call" /\ nreq' = nreq + 1 =>
       LET key == lower(req'.name)
       IN IF key \notin Keys
          THEN /\ status' = 404
               /\ UNCHANGED <<contacts, call_log, relationships, trie>>
          ELSE /\ status' = 200
               /\ Len(MapGet(call_log', key, <<>>)) = Len(Calls(key)) + 1
               /\ \A k \in KnownKeys \ {key} :
                    MapGet(call_log', k, <<>>) = Calls(k)

\* C9: every step only appends to the call log
C9_CallLogAppendOnly == [][C9_Step]_vars

\* a contact was deleted and added again (it now follows, in the store, a
\* contact indexed after it) and its earlier calls are still logged
C9_Witness ==
  /\ req.op = "add_contact"
  /\ status = 201
  /\ LET key == lower(req.data["name"])
     IN /\ Len(Calls(key)) >= 1
        /\ contacts[Len(contacts)][1] = key
        /\ \E i \in 1..(Len(contacts) - 1) :
             /\ Diverge(contacts[i][1], key)
             /\ Born(key) < Born(contacts[i][1])

(***************************************************************************)
(* Properties of update_contact                                            *)
(***************************************************************************)
Supplied(d, f) == f \in DOMAIN d /\ d[f] # <<>> /\ d[f] # None

MalformedPhone(d) ==
  /\ Supplied(d, "phone")
  /\ \/ \E i \in 1..Len(d["phone"]) : d["phone"][i] \notin Digits
     \/ Len(d["phone"]) < 10

MalformedEmail(d) == Supplied(d, "email") /\ ~validate_email(d["email"])

\* C6: an update of an existing contact with a malformed phone or email
\* answers 400 and leaves the whole store as it was.
C6_Step ==
  /\ req'.op = "update_contact"
  /\ nreq' = nreq + 1
  /\ lower(req'.name) \in Keys
  /\ MalformedPhone(req'.data) \/ MalformedEmail(req'.data)
  => status' = 400 /\ contacts' = contacts

\* C6: no step applies a malformed update
C6_MalformedUpdateApplied == [][C6_Step]_vars

\* a refused update that carried a well-formed phone, a malformed email
\* and other fields differing from the stored ones
C6_Witness ==
  /\ req.op = "update_contact"
  /\ status = 400
  /\ lower(req.name) \in Keys
  /\ Supplied(req.data, "phone") /\ ~MalformedPhone(req.data)
  /\ req.data["phone"] # DictGet(contacts, lower(req.name)).phone
  /\ MalformedEmail(req.data)
  /\ Supplied(req.data, "address")
  /\ req.data["address"] # DictGet(contacts, lower(req.name)).address

\* C7: a successful update gives each supplied non-empty field (non-null
\* for favorite) the request's value, keeps every other field, every
\* other contact, the key set and its order, the trie, the graph and the
\* call log.
C7_Step ==
  req'.op = "update_contact" /\ nreq' = nreq + 1 /\ status' = 200 =>
    LET key == lower(req'.name)
        d == req'.data
        old == DictGet(contacts, key)
        new == DictGet(contacts', key)
    IN /\ key \in Keys
       /\ \A f \in {"phone", "email", "address", "group"} :
            new[f] = IF Supplied(d, f) THEN d[f] ELSE old[f]
       /\ new.favorite = IF "favorite" \in DOMAIN d /\ d["favorite"] # "None"
                         THEN d["favorite"] ELSE old.favorite
       /\ Len(contacts') = Len(contacts)
       /\ \A i \in 1..Len(contacts) : contacts'[i][1] = contacts[i][1]
       /\ \A k \in Keys \ {key} : DictGet(contacts', k) = DictGet(contacts, k)
       /\ UNCHANGED <<trie, relationships, call_log>>

\* C7: every accepted update changes only the supplied fields
C7_UpdateFrame == [][C7_Step]_vars

\* an accepted update with an empty phone, an empty address, a new group
\* and favorite set to false on a contact stored as favorite
C7_Witness ==
  /\ req.op = "update_contact"
  /\ status = 200
  /\ "phone" \in DOMAIN req.data /\ req.data["phone"] = <<>>
  /\ "address" \in DOMAIN req.data /\ req.data["address"] = <<>>
  /\ Supplied(req.data, "group")
  /\ DictGet(contacts, lower(req.name)).group = req.data["group"]
  /\ DictGet(contacts, lower(req.name)).address # <<>>
  /\ "favorite" \in DOMAIN req.data
  /\ DictGet(contacts, lower(req.name)).favorite = "False"

====
